---- MODULE Spec2Model ----
(***************************************************************************)
(* Model of deltacode.ino: the serial command interpreter, the staged /    *)
(* last-applied settings, the unit scaling done with map(), the two mode   *)
(* updates and the waveform formulas of the Delta ES030-5 controller.      *)
(*                                                                         *)
(* Text (a received line, a printed line) is a sequence of fragments: a   *)
(* received line is a sequence of one-character strings, a string literal  *)
(* of the program is one fragment.                                         *)
(***************************************************************************)
EXTENDS Integers, Sequences, FiniteSets, TLC

VARIABLES MODE, MEASURED_VOLTAGE, LAST_VOLTAGE, VOLTAGE, MEASURED_CURRENT,
          LAST_CURRENT, CURRENT, LAST_WAVEFORM, WAVEFORM, LAST_FREQ, FREQ,
          LAST_AMP, AMP, LAST_OFFSET, OFFSET,
          rsd, vdac, cdac, rx, sent, pc, lineRead, command, value, trace,
          reqV, reqC

settings == <<MODE, LAST_VOLTAGE, VOLTAGE, LAST_CURRENT, CURRENT,
              LAST_WAVEFORM, WAVEFORM, LAST_FREQ, FREQ, LAST_AMP, AMP,
              LAST_OFFSET, OFFSET>>

staged == <<VOLTAGE, CURRENT, WAVEFORM, FREQ, AMP, OFFSET>>

measured == <<MEASURED_VOLTAGE, MEASURED_CURRENT>>

hardware == <<rsd, vdac, cdac>>

vars == <<MODE, MEASURED_VOLTAGE, LAST_VOLTAGE, VOLTAGE, MEASURED_CURRENT,
          LAST_CURRENT, CURRENT, LAST_WAVEFORM, WAVEFORM, LAST_FREQ, FREQ,
          LAST_AMP, AMP, LAST_OFFSET, OFFSET,
          rsd, vdac, cdac, rx, sent, pc, lineRead, command, value, trace,
          reqV, reqC>>

(***************************************************************************)
(* Bounds of the model.                                                    *)
(***************************************************************************)
\* lines the host sends in one run
MaxCmds == 2

\* characters (line feeds included) that can wait in the serial receive buffer
MaxRxChars == 10

(***************************************************************************)
(* Configuration and limits of the program.                                *)
(***************************************************************************)
CONFIRMATION == TRUE

CONFIRMATION_MESSAGE == <<"OK">>

USE_CORRECTION_FACTOR == FALSE

VOLTAGE_MIN == 0

VOLTAGE_MAX == 30000

CURRENT_MIN == 0

CURRENT_MAX == 5000

FREQ_MIN == 0

FREQ_MAX == 50

WAVEFORM_MIN == 0

WAVEFORM_MAX == 3

\* the full-scale DAC code, the literal 4095 of the map() calls and of sa/so
CODE_MAX == 4095

\* the correction factor stays at its initial value: setup() computes it only
\* under USE_CORRECTION_FACTOR
CORRECTION_FACTOR == 0

(***************************************************************************)
(* Integer and text primitives the program uses.                           *)
(***************************************************************************)
Abs(x) == IF x < 0 THEN -x ELSE x

\* C integer division: the quotient is truncated toward zero
CDiv(a, b) ==
  IF (a >= 0) = (b > 0) THEN Abs(a) \div Abs(b) ELSE -(Abs(a) \div Abs(b))

\* a map() that rounds the quotient to the nearest integer
ArduinoMap_Rounding(x, in_min, in_max, out_min, out_max) ==
  LET num == (x - in_min) * (out_max - out_min)
      den == in_max - in_min
  IN  CDiv(2 * num + (IF num < 0 THEN -den ELSE den), 2 * den) + out_min

\* Arduino map(): long arithmetic, truncating division
ArduinoMap(x, in_min, in_max, out_min, out_max) ==
  CDiv((x - in_min) * (out_max - out_min), in_max - in_min) + out_min

DigitChars == <<"0", "1", "2", "3", "4", "5", "6", "7", "8", "9">>

IsDigit(c) == \E i \in 1..10 : DigitChars[i] = c

DigitVal(c) == (CHOOSE i \in 1..10 : DigitChars[i] = c) - 1

IsSpace(c) == c \in {" ", "\r", "\t", "\n"}

\* decimal text of an integer: Serial.println(int), and the host's own
\* formatting of an argument
RECURSIVE Dec(_)
Dec(n) ==
  IF n < 0 THEN <<"-">> \o Dec(-n)
  ELSE IF n < 10 THEN <<DigitChars[n + 1]>>
  ELSE Dec(n \div 10) \o <<DigitChars[(n % 10) + 1]>>

\* Serial.println(float) prints two decimals; every float the program prints
\* is the float of a long, so the decimals are 00
PrintFloat(n) == Dec(n) \o <<".", "0", "0">>

RECURSIVE DigitsValue(_, _)
DigitsValue(s, acc) ==
  IF s = <<>> \/ ~IsDigit(Head(s)) THEN acc
  ELSE DigitsValue(Tail(s), acc * 10 + DigitVal(Head(s)))

RECURSIVE SkipSpace(_)
SkipSpace(s) ==
  IF s # <<>> /\ IsSpace(Head(s)) THEN SkipSpace(Tail(s)) ELSE s

\* String::toInt is atol: leading white space, an optional sign, then digits
\* up to the first character that is not a digit; 0 when there is no digit
ToInt(s) ==
  LET t == SkipSpace(s)
  IN  IF t = <<>> THEN 0
      ELSE IF Head(t) = "-" THEN -DigitsValue(Tail(t), 0)
      ELSE IF Head(t) = "+" THEN DigitsValue(Tail(t), 0)
      ELSE DigitsValue(t, 0)

\* String::indexOf: the 0-based index of the first ch, -1 when there is none
IndexOf(s, ch) ==
  IF \E i \in 1..Len(s) : s[i] = ch
  THEN (CHOOSE i \in 1..Len(s) : s[i] = ch /\ \A j \in 1..(i - 1) : s[j] # ch) - 1
  ELSE -1

\* an int passed as an unsigned int parameter
UINT_MOD == 65536

AsUnsigned(i) == i % UINT_MOD

\* String::substring(left, right): the indices are unsigned, swapped when
\* left > right, right is clipped to the length, empty when left >= length
Substring(s, left, right) ==
  LET l0 == AsUnsigned(left)
      r0 == AsUnsigned(right)
      l  == IF l0 > r0 THEN r0 ELSE l0
      r1 == IF l0 > r0 THEN l0 ELSE r0
      r  == IF r1 > Len(s) THEN Len(s) ELSE r1
  IN  IF l >= Len(s) THEN <<>> ELSE SubSeq(s, l + 1, r)

\* String::substring(left) is substring(left, length)
SubstringFrom(s, left) == Substring(s, left, Len(s))

(***************************************************************************)
(* Unit scaling.                                                           *)
(***************************************************************************)
map_input_voltage_Unscaled(input) == input

map_input_voltage(input) == ArduinoMap(input, VOLTAGE_MIN, VOLTAGE_MAX, 0, CODE_MAX)

map_input_current(input) == ArduinoMap(input, CURRENT_MIN, CURRENT_MAX, 0, CODE_MAX)

map_output_voltage_CurrentRange(output) ==
  ArduinoMap(output, 0, CODE_MAX, CURRENT_MIN, CURRENT_MAX)

map_output_voltage(output) == ArduinoMap(output, 0, CODE_MAX, VOLTAGE_MIN, VOLTAGE_MAX)

map_output_current(output) == ArduinoMap(output, 0, CODE_MAX, CURRENT_MIN, CURRENT_MAX)

(***************************************************************************)
(* What an iteration does that the outside can see, in order.              *)
(***************************************************************************)
Println(text) == [t |-> "println", s |-> text]

DacWrite(channel, code) == [t |-> "dac", ch |-> channel, code |-> code]

PinWrite(level) == [t |-> "rsd", level |-> level]

\* digitalRead(CC_MODE_PIN) and the level it returned
PinRead(level) == [t |-> "cc", level |-> level]

\* millis() inside a waveform function, as the eighth of a period it falls in
TimeRead(ph) == [t |-> "millis", ph |-> ph]

IsLine(e) == e.t = "println"

IsDac(e) == e.t = "dac"

IsErr(e, code) ==
  IsLine(e) /\ Len(e.s) >= 3 /\ e.s[1] = "err:" /\ e.s[2] = " " /\ e.s[3] = code

ErrLine(code, message) == Println(<<"err:", " ", code, " ", message>>)

(***************************************************************************)
(* The host.  A line is what Serial.readStringUntil('\n') returns: the     *)
(* characters sent before the line feed.                                   *)
(***************************************************************************)
Verb(a, b) == <<a, b>>

WithArg(verb, n) == verb \o <<" ">> \o Dec(n)

SvArgs == {-1, 5000, 30000, 30001}

ScArgs == {-1, 6, 5001}

SmArgs == {-1, 0, 1, 2}

SfArgs == {-1, 50, 51}

SaArgs == {-30000, 5000, 30001}

SoArgs == {-30000, 28000}

SwArgs == {-1, 1, 2, 3, 4}

BareLines ==
  { <<"r">>, <<"s">>, Verb("g", "v"), Verb("g", "c"), Verb("g", "m"),
    Verb("g", "f"), Verb("g", "a"), Verb("g", "o"), Verb("g", "w"),
    Verb("z", "z") }

\* lines ended by a carriage return before the line feed
CrLines == { Verb("g", "v") \o <<"\r">>, WithArg(Verb("s", "v"), 5000) \o <<"\r">> }

Lines ==
  {WithArg(Verb("s", "v"), n) : n \in SvArgs} \cup
  {WithArg(Verb("s", "c"), n) : n \in ScArgs} \cup
  {WithArg(Verb("s", "m"), n) : n \in SmArgs} \cup
  {WithArg(Verb("s", "f"), n) : n \in SfArgs} \cup
  {WithArg(Verb("s", "a"), n) : n \in SaArgs} \cup
  {WithArg(Verb("s", "o"), n) : n \in SoArgs} \cup
  {WithArg(Verb("s", "w"), n) : n \in SwArgs} \cup
  BareLines \cup CrLines

(***************************************************************************)
(* setup() and the initial values of the globals.                          *)
(***************************************************************************)
\* the state after setup(), with the lines q already received
Booted(q) ==
  /\ MODE = 0
  /\ MEASURED_VOLTAGE = 0
  /\ LAST_VOLTAGE = 0
  /\ VOLTAGE = 0
  /\ MEASURED_CURRENT = 0
  /\ LAST_CURRENT = 0
  /\ CURRENT = 0
  /\ LAST_WAVEFORM = 0
  /\ WAVEFORM = 0
  /\ LAST_FREQ = 0
  /\ FREQ = 10
  /\ LAST_AMP = 0
  /\ AMP = 1000
  /\ LAST_OFFSET = 0
  /\ OFFSET = 0
  /\ rsd = 0
  /\ vdac = 0
  /\ cdac = 0
  /\ rx = q
  /\ sent = Len(q)
  /\ pc = "read"
  /\ lineRead = FALSE
  /\ command = <<>>
  /\ value = <<>>
  /\ trace = <<>>
  /\ reqV = 0
  /\ reqC = 0

Init == Booted(<<>>)

\* characters a queue of lines takes in the receive buffer: each line and
\* its line feed
RECURSIVE RxUsed(_)
RxUsed(q) == IF q = <<>> THEN 0 ELSE Len(Head(q)) + 1 + RxUsed(Tail(q))

\* the host sends one more line; it is seen by the next read_commands
Receive ==
  /\ pc = "read"
  /\ sent < MaxCmds
  /\ \E line \in Lines :
       /\ RxUsed(rx) + Len(line) + 1 <= MaxRxChars
       /\ rx' = Append(rx, line)
  /\ sent' = sent + 1
  /\ UNCHANGED <<settings, measured, hardware, pc, lineRead, command, value,
                 trace, reqV, reqC>>

(***************************************************************************)
(* read_commands                                                           *)
(***************************************************************************)
\* Serial.available() > 0
Avail == pc = "read" /\ rx # <<>>

Input == Head(rx)

Command == Substring(Input, 0, IndexOf(Input, " "))

Value == SubstringFrom(Input, IndexOf(Input, " ") + 1)

KnownVerbs ==
  { <<"r">>, <<"s">>, Verb("s", "v"), Verb("s", "c"), Verb("g", "v"),
    Verb("g", "c"), Verb("s", "m"), Verb("g", "m"), Verb("s", "f"),
    Verb("g", "f"), Verb("s", "a"), Verb("g", "a"), Verb("s", "o"),
    Verb("g", "o"), Verb("s", "w"), Verb("g", "w") }

Confirmation(cmd, val) ==
  IF CONFIRMATION
  THEN <<Println(cmd \o <<" ">> \o val \o <<" ">> \o CONFIRMATION_MESSAGE)>>
  ELSE <<>>

\* a read that empties the receive buffer
Processed_Flush(body) ==
  /\ rx' = <<>>
  /\ lineRead' = TRUE
  /\ command' = Command
  /\ value' = Value
  /\ trace' = body \o Confirmation(Command, Value)
  /\ pc' = "mode"
  /\ UNCHANGED <<sent, measured, vdac, cdac>>

\* what every branch of read_commands shares: the line is consumed, the
\* branch's own output comes first, the confirmation last
Processed(body) ==
  /\ rx' = Tail(rx)
  /\ lineRead' = TRUE
  /\ command' = Command
  /\ value' = Value
  /\ trace' = body \o Confirmation(Command, Value)
  /\ pc' = "mode"
  /\ UNCHANGED <<sent, measured, vdac, cdac>>

NoCommand ==
  /\ pc = "read"
  /\ rx = <<>>
  /\ lineRead' = FALSE
  /\ command' = <<>>
  /\ value' = <<>>
  /\ trace' = <<>>
  /\ pc' = "mode"
  /\ UNCHANGED <<settings, measured, hardware, rx, sent, reqV, reqC>>

CmdR ==
  /\ Avail
  /\ Command = <<"r">>
  /\ rsd' = 1
  /\ Processed(<<PinWrite(1)>>)
  /\ UNCHANGED <<settings, reqV, reqC>>

\* s copied from r without changing the level
CmdS_WritesHigh ==
  /\ Avail
  /\ Command = <<"s">>
  /\ rsd' = 1
  /\ Processed(<<PinWrite(1)>>)
  /\ UNCHANGED <<settings, reqV, reqC>>

CmdS ==
  /\ Avail
  /\ Command = <<"s">>
  /\ rsd' = 0
  /\ Processed(<<PinWrite(0)>>)
  /\ UNCHANGED <<settings, reqV, reqC>>

VoltageOutOfBounds_NoUpper(new_voltage) == new_voltage < VOLTAGE_MIN

VoltageOutOfBounds(new_voltage) ==
  new_voltage < VOLTAGE_MIN \/ new_voltage > VOLTAGE_MAX

CmdSv ==
  /\ Avail
  /\ Command = Verb("s", "v")
  /\ LET new_voltage == ToInt(Value)
     IN  IF VoltageOutOfBounds(new_voltage)
         THEN /\ Processed(<<ErrLine("1", "Voltage out of bounds")>>)
              /\ UNCHANGED <<VOLTAGE, reqV>>
         ELSE /\ VOLTAGE' = map_input_voltage(new_voltage)
              /\ reqV' = new_voltage
              /\ Processed(<<>>)
  /\ UNCHANGED <<MODE, LAST_VOLTAGE, LAST_CURRENT, CURRENT, LAST_WAVEFORM,
                 WAVEFORM, LAST_FREQ, FREQ, LAST_AMP, AMP, LAST_OFFSET, OFFSET,
                 rsd, reqC>>

CurrentOutOfBounds(new_current) ==
  new_current < CURRENT_MIN \/ new_current > CURRENT_MAX

CmdSc ==
  /\ Avail
  /\ Command = Verb("s", "c")
  /\ LET new_current == ToInt(Value)
     IN  IF CurrentOutOfBounds(new_current)
         THEN /\ Processed(<<ErrLine("1", "Current out of bounds")>>)
              /\ UNCHANGED <<CURRENT, reqC>>
         ELSE /\ CURRENT' = map_input_current(new_current)
              /\ reqC' = new_current
              /\ Processed(<<>>)
  /\ UNCHANGED <<MODE, LAST_VOLTAGE, VOLTAGE, LAST_CURRENT, LAST_WAVEFORM,
                 WAVEFORM, LAST_FREQ, FREQ, LAST_AMP, AMP, LAST_OFFSET, OFFSET,
                 rsd, reqV>>

CmdGv ==
  /\ Avail
  /\ Command = Verb("g", "v")
  /\ Processed(<<Println(PrintFloat(map_output_voltage(LAST_VOLTAGE)))>>)
  /\ UNCHANGED <<settings, rsd, reqV, reqC>>

CmdGc ==
  /\ Avail
  /\ Command = Verb("g", "c")
  /\ Processed(<<Println(PrintFloat(map_output_current(LAST_CURRENT)))>>)
  /\ UNCHANGED <<settings, rsd, reqV, reqC>>

ModeOutOfBounds_OffByOne(new_mode) == new_mode < 0 \/ new_mode > 2

ModeOutOfBounds(new_mode) == new_mode < 0 \/ new_mode > 1

\* a mode switch that also clears what was staged for the supply
CmdSm_ResetsStaged ==
  /\ Avail
  /\ Command = Verb("s", "m")
  /\ LET new_mode == ToInt(Value)
     IN  IF ModeOutOfBounds(new_mode)
         THEN /\ Processed(<<ErrLine("1", "Mode out of bounds")>>)
              /\ UNCHANGED <<MODE, VOLTAGE, CURRENT>>
         ELSE /\ MODE' = new_mode
              /\ VOLTAGE' = 0
              /\ CURRENT' = 0
              /\ Processed(<<>>)
  /\ UNCHANGED <<LAST_VOLTAGE, LAST_CURRENT, LAST_WAVEFORM, WAVEFORM,
                 LAST_FREQ, FREQ, LAST_AMP, AMP, LAST_OFFSET, OFFSET, rsd,
                 reqV, reqC>>

CmdSm ==
  /\ Avail
  /\ Command = Verb("s", "m")
  /\ LET new_mode == ToInt(Value)
     IN  IF ModeOutOfBounds(new_mode)
         THEN /\ Processed(<<ErrLine("1", "Mode out of bounds")>>)
              /\ UNCHANGED MODE
         ELSE /\ MODE' = new_mode
              /\ Processed(<<>>)
  /\ UNCHANGED <<LAST_VOLTAGE, VOLTAGE, LAST_CURRENT, CURRENT, LAST_WAVEFORM,
                 WAVEFORM, LAST_FREQ, FREQ, LAST_AMP, AMP, LAST_OFFSET, OFFSET,
                 rsd, reqV, reqC>>

CmdGm ==
  /\ Avail
  /\ Command = Verb("g", "m")
  /\ Processed(<<Println(Dec(MODE))>>)
  /\ UNCHANGED <<settings, rsd, reqV, reqC>>

FreqOutOfBounds(new_freq) == new_freq < FREQ_MIN \/ new_freq > FREQ_MAX

CmdSf ==
  /\ Avail
  /\ Command = Verb("s", "f")
  /\ LET new_freq == ToInt(Value)
     IN  IF FreqOutOfBounds(new_freq)
         THEN /\ Processed(<<ErrLine("1", "Frequency out of bounds")>>)
              /\ UNCHANGED FREQ
         ELSE /\ FREQ' = new_freq
              /\ Processed(<<>>)
  /\ UNCHANGED <<MODE, LAST_VOLTAGE, VOLTAGE, LAST_CURRENT, CURRENT,
                 LAST_WAVEFORM, WAVEFORM, LAST_FREQ, LAST_AMP, AMP, LAST_OFFSET,
                 OFFSET, rsd, reqV, reqC>>

CmdGf ==
  /\ Avail
  /\ Command = Verb("g", "f")
  /\ Processed(<<Println(Dec(LAST_FREQ))>>)
  /\ UNCHANGED <<settings, rsd, reqV, reqC>>

SumTooLarge_OwnOnly(new_code, other) == new_code > CODE_MAX

\* the only test sa and so make: the new code plus the other field's code
SumTooLarge(new_code, other) == new_code + other > CODE_MAX

CmdSa ==
  /\ Avail
  /\ Command = Verb("s", "a")
  /\ LET new_amp == map_input_voltage(ToInt(Value))
     IN  IF SumTooLarge(new_amp, OFFSET)
         THEN /\ Processed(<<ErrLine("1", "Amplitude + Offset is greater than 30 V")>>)
              /\ UNCHANGED AMP
         ELSE /\ AMP' = new_amp
              /\ Processed(<<>>)
  /\ UNCHANGED <<MODE, LAST_VOLTAGE, VOLTAGE, LAST_CURRENT, CURRENT,
                 LAST_WAVEFORM, WAVEFORM, LAST_FREQ, FREQ, LAST_AMP, LAST_OFFSET,
                 OFFSET, rsd, reqV, reqC>>

CmdGa ==
  /\ Avail
  /\ Command = Verb("g", "a")
  /\ Processed(<<Println(PrintFloat(map_output_voltage(LAST_AMP)))>>)
  /\ UNCHANGED <<settings, rsd, reqV, reqC>>

CmdSo ==
  /\ Avail
  /\ Command = Verb("s", "o")
  /\ LET new_offset == map_input_voltage(ToInt(Value))
     IN  IF SumTooLarge(new_offset, AMP)
         THEN /\ Processed(<<ErrLine("1", "Amplitude + Offset is greater than 30 V")>>)
              /\ UNCHANGED OFFSET
         ELSE /\ OFFSET' = new_offset
              /\ Processed(<<>>)
  /\ UNCHANGED <<MODE, LAST_VOLTAGE, VOLTAGE, LAST_CURRENT, CURRENT,
                 LAST_WAVEFORM, WAVEFORM, LAST_FREQ, FREQ, LAST_AMP, AMP,
                 LAST_OFFSET, rsd, reqV, reqC>>

CmdGo ==
  /\ Avail
  /\ Command = Verb("g", "o")
  /\ Processed(<<Println(PrintFloat(map_output_voltage(LAST_OFFSET)))>>)
  /\ UNCHANGED <<settings, rsd, reqV, reqC>>

WaveformOutOfBounds(waveform) ==
  waveform < WAVEFORM_MIN \/ waveform > WAVEFORM_MAX

CmdSw ==
  /\ Avail
  /\ Command = Verb("s", "w")
  /\ LET waveform == ToInt(Value)
     IN  IF WaveformOutOfBounds(waveform)
         THEN /\ Processed(<<ErrLine("1", "Waveform out of bounds")>>)
              /\ UNCHANGED WAVEFORM
         ELSE /\ WAVEFORM' = waveform
              /\ Processed(<<>>)
  /\ UNCHANGED <<MODE, LAST_VOLTAGE, VOLTAGE, LAST_CURRENT, CURRENT,
                 LAST_WAVEFORM, LAST_FREQ, FREQ, LAST_AMP, AMP, LAST_OFFSET,
                 OFFSET, rsd, reqV, reqC>>

\* gw prints WAVEFORM, not LAST_WAVEFORM
GwReported == WAVEFORM

CmdGw ==
  /\ Avail
  /\ Command = Verb("g", "w")
  /\ Processed(<<Println(Dec(GwReported))>>)
  /\ UNCHANGED <<settings, rsd, reqV, reqC>>

UnknownCommandLine(cmd) ==
  Println(<<"err:", " ", "Unknown command", " ">> \o cmd \o <<"!">>)

CmdUnknown ==
  /\ Avail
  /\ Command \notin KnownVerbs
  /\ Processed(<<UnknownCommandLine(Command)>>)
  /\ UNCHANGED <<settings, rsd, reqV, reqC>>

(***************************************************************************)
(* The mode updates.                                                       *)
(***************************************************************************)
\* readings analogRead can return
AdcSamples == {0, 1023}

\* analogRead(pin) / 1024 * 5 in int arithmetic
MonitorReading(adc) == CDiv(adc, 1024) * 5

update_monitor_readings ==
  /\ MEASURED_VOLTAGE' \in {MonitorReading(adc) : adc \in AdcSamples}
  /\ MEASURED_CURRENT' \in {MonitorReading(adc) : adc \in AdcSamples}

Corrected(output) ==
  IF USE_CORRECTION_FACTOR THEN output * CORRECTION_FACTOR ELSE output

VoltageChanged_Always == TRUE

VoltageChanged == VOLTAGE # LAST_VOLTAGE

CurrentChanged == CURRENT # LAST_CURRENT

execute_psu_mode ==
  /\ update_monitor_readings
  /\ IF VoltageChanged
     THEN vdac' = Corrected(VOLTAGE) /\ LAST_VOLTAGE' = VOLTAGE
     ELSE UNCHANGED <<vdac, LAST_VOLTAGE>>
  /\ IF CurrentChanged
     THEN cdac' = Corrected(CURRENT) /\ LAST_CURRENT' = CURRENT
     ELSE UNCHANGED <<cdac, LAST_CURRENT>>
  /\ trace' = trace
        \o (IF VoltageChanged
            THEN <<DacWrite("voltage", Corrected(VOLTAGE))>> ELSE <<>>)
        \o (IF CurrentChanged
            THEN <<DacWrite("current", Corrected(CURRENT))>> ELSE <<>>)
  /\ UNCHANGED <<VOLTAGE, CURRENT, LAST_WAVEFORM, WAVEFORM, LAST_FREQ, FREQ,
                 LAST_AMP, AMP, LAST_OFFSET, OFFSET>>

(***************************************************************************)
(* The waveforms.  Time enters only through the angle 2*PI*millis*1e-3*freq; *)
(* the model samples it at the eighths of a period, ph = 0..7, and a       *)
(* frequency of 0 keeps the angle at 0.  A float is a pair <<num, den>>.   *)
(***************************************************************************)
Phases == 0..7

PhaseAt(freq, ph) == IF freq = 0 THEN 0 ELSE ph

\* sin at the eighths of a period, in units of 1/SinDen
SinDen == 10000

SinNum == <<0, 7071, 10000, 7071, 0, -7071, -10000, -7071>>

\* asin(sin(angle)) at the eighths of a period, in units of PI/4
AsinSinQ == <<0, 1, 2, 1, 0, -1, -2, -1>>

\* atan(tan(angle)) in units of PI/4; at a quarter and three quarters of a
\* period tan has a pole and the float result is +PI/2 or -PI/2 (sg)
AtanTanQ(ph, sg) ==
  IF ph \in {2, 6} THEN 2 * sg ELSE <<0, 1, 0, -1, 0, 1, 0, -1>>[ph + 1]

\* conversion of a float to int truncates toward zero
FloatToInt(q) == CDiv(q[1], q[2])

cal_sine_NoOffset(freq, amplitude, offset, ph) ==
  <<SinNum[PhaseAt(freq, ph) + 1] * amplitude, SinDen>>

cal_sine(freq, amplitude, offset, ph) ==
  <<SinNum[PhaseAt(freq, ph) + 1] * amplitude + offset * SinDen, SinDen>>

cal_square(freq, amplitude, offset, ph) ==
  IF SinNum[PhaseAt(freq, ph) + 1] > 0
  THEN <<amplitude + offset, 1>>
  ELSE <<offset, 1>>

\* (2 * amplitude / PI) * (q * PI / 4) + offset
cal_triangle(freq, amplitude, offset, ph) ==
  <<2 * amplitude * AsinSinQ[PhaseAt(freq, ph) + 1] + 4 * offset, 4>>

cal_sawtooth(freq, amplitude, offset, ph, sg) ==
  <<2 * amplitude * AtanTanQ(PhaseAt(freq, ph), sg) + 4 * offset, 4>>

\* the switch of execute_function_generator_mode and the conversion to int
Sample(ph, sg) ==
  Corrected(
    CASE WAVEFORM = 0 -> FloatToInt(cal_sine(FREQ, AMP, OFFSET, ph))
      [] WAVEFORM = 1 -> FloatToInt(cal_square(FREQ, AMP, OFFSET, ph))
      [] WAVEFORM = 2 -> FloatToInt(cal_triangle(FREQ, AMP, OFFSET, ph))
      [] WAVEFORM = 3 -> FloatToInt(cal_sawtooth(FREQ, AMP, OFFSET, ph, sg))
      [] OTHER -> 0)

FgChanged_WaveformOnly == LAST_WAVEFORM # WAVEFORM

FgChanged ==
  LAST_FREQ # FREQ \/ LAST_AMP # AMP \/ LAST_OFFSET # OFFSET
    \/ LAST_WAVEFORM # WAVEFORM

CurrentLimited_Inverted(cc) == cc = 0

\* digitalRead(CC_MODE_PIN) == 1
CurrentLimited(cc) == cc = 1

\* the elapsed times and the sample the update pushes at each
Samples == {<<ph, Sample(ph, sg)>> : ph \in Phases, sg \in {-1, 1}}

execute_function_generator_mode ==
  /\ update_monitor_readings
  /\ IF FgChanged
     THEN /\ LAST_FREQ' = FREQ
          /\ LAST_AMP' = AMP
          /\ LAST_OFFSET' = OFFSET
          /\ LAST_WAVEFORM' = WAVEFORM
     ELSE UNCHANGED <<LAST_FREQ, LAST_AMP, LAST_OFFSET, LAST_WAVEFORM>>
  /\ \E sample \in Samples, cc \in {0, 1} :
       /\ vdac' = sample[2]
       /\ trace' = trace
            \o <<TimeRead(sample[1]), DacWrite("voltage", sample[2]),
                 PinRead(cc)>>
            \o (IF CurrentLimited(cc)
                THEN <<ErrLine("2", "Current limit reached")>> ELSE <<>>)
  /\ UNCHANGED <<LAST_VOLTAGE, VOLTAGE, LAST_CURRENT, CURRENT, WAVEFORM, FREQ,
                 AMP, OFFSET, cdac>>

\* loop(), after read_commands
Loop ==
  /\ pc = "mode"
  /\ pc' = "read"
  /\ IF MODE = 0 THEN execute_psu_mode
     ELSE IF MODE = 1 THEN execute_function_generator_mode
     ELSE /\ trace' = trace \o <<ErrLine("0", "Unknown mode")>>
          /\ UNCHANGED <<LAST_VOLTAGE, VOLTAGE, LAST_CURRENT, CURRENT,
                         LAST_WAVEFORM, WAVEFORM, LAST_FREQ, FREQ, LAST_AMP,
                         AMP, LAST_OFFSET, OFFSET, measured, vdac, cdac>>
  /\ UNCHANGED <<MODE, rsd, rx, sent, lineRead, command, value, reqV, reqC>>

ReadCommands ==
  \/ NoCommand
  \/ CmdR \/ CmdS
  \/ CmdSv \/ CmdSc \/ CmdGv \/ CmdGc
  \/ CmdSm \/ CmdGm
  \/ CmdSf \/ CmdGf
  \/ CmdSa \/ CmdGa
  \/ CmdSo \/ CmdGo
  \/ CmdSw \/ CmdGw
  \/ CmdUnknown

Next == Receive \/ ReadCommands \/ Loop

Spec == Init /\ [][Next]_vars

(***************************************************************************)
(* The round trip of one setting: the host sends one sv or sc with any     *)
(* argument of the setting's range and, after the iteration that processed *)
(* it, one gv or gc.                                                       *)
(***************************************************************************)
RoundTripLines ==
  {WithArg(Verb("s", "v"), v) : v \in VOLTAGE_MIN..VOLTAGE_MAX} \cup
  {WithArg(Verb("s", "c"), c) : c \in CURRENT_MIN..CURRENT_MAX}

InitRT == \E line \in RoundTripLines : Booted(<<line>>)

\* the query follows the iteration that processed the setter
ReceiveQuery ==
  /\ pc = "read"
  /\ rx = <<>>
  /\ lineRead
  /\ command \in {Verb("s", "v"), Verb("s", "c")}
  /\ \E line \in {Verb("g", "v"), Verb("g", "c")} : rx' = <<line>>
  /\ sent' = sent + 1
  /\ UNCHANGED <<settings, measured, hardware, pc, lineRead, command, value,
                 trace, reqV, reqC>>

NextRT == ReceiveQuery \/ CmdSv \/ CmdSc \/ CmdGv \/ CmdGc \/ Loop

SpecRT == InitRT /\ [][NextRT]_vars

(***************************************************************************)
(* The function generator driven by one script: the host selects the sine, *)
(* a frequency, an amplitude and an offset, then switches the mode; all    *)
(* five lines are received before the first iteration.                     *)
(***************************************************************************)
PeakFreqs == {0, 1, 50}

PeakAmps == {0, 1000, 5000, 15000, 30000}

PeakOffsets == {0, 5000, 15000}

PeakScript(f, a, o) ==
  << WithArg(Verb("s", "w"), 0), WithArg(Verb("s", "f"), f),
     WithArg(Verb("s", "a"), a), WithArg(Verb("s", "o"), o),
     WithArg(Verb("s", "m"), 1) >>

InitPeak ==
  \E f \in PeakFreqs, a \in PeakAmps, o \in PeakOffsets :
    Booted(PeakScript(f, a, o))

NextPeak == CmdSw \/ CmdSf \/ CmdSa \/ CmdSo \/ CmdSm \/ NoCommand \/ Loop

SpecPeak == InitPeak /\ [][NextPeak]_vars

(***************************************************************************)
(* Vocabulary of the properties.                                           *)
(***************************************************************************)
\* the state right after read_commands consumed a line
JustProcessed == pc = "mode" /\ lineRead

\* a step of read_commands that consumes a line
ProcessStep == pc = "read" /\ pc' = "mode" /\ lineRead'

ErrCount(tr, code) == Len(SelectSeq(tr, LAMBDA e : IsErr(e, code)))

\* the declared range of each range-checked setter
DeclaredRange(verb) ==
  CASE verb = Verb("s", "v") -> 0..30000
    [] verb = Verb("s", "c") -> 0..5000
    [] verb = Verb("s", "f") -> 0..50
    [] verb = Verb("s", "w") -> 0..3
    [] verb = Verb("s", "m") -> 0..1

RangeChecked ==
  {Verb("s", "v"), Verb("s", "c"), Verb("s", "f"), Verb("s", "w"), Verb("s", "m")}

OutOfDeclaredRange(cmd, val) ==
  cmd \in RangeChecked /\ ToInt(val) \notin DeclaredRange(cmd)

C2_SumWithinFullScale ==
  /\ [](AMP + OFFSET <= CODE_MAX)
  /\ [][(ProcessStep /\ command' = Verb("s", "a")
           /\ map_input_voltage(ToInt(value')) + OFFSET > CODE_MAX)
          => (ErrCount(trace', "1") = 1 /\ AMP' = AMP /\ OFFSET' = OFFSET)]_vars
  /\ [][(ProcessStep /\ command' = Verb("s", "o")
           /\ map_input_voltage(ToInt(value')) + AMP > CODE_MAX)
          => (ErrCount(trace', "1") = 1 /\ AMP' = AMP /\ OFFSET' = OFFSET)]_vars

\* sa 5000 was accepted, so 28000 has just been rejected
C2_Witness ==
  /\ JustProcessed
  /\ command = Verb("s", "o")
  /\ ToInt(value) = 28000
  /\ AMP = map_input_voltage(5000)
  /\ OFFSET = 0
  /\ ErrCount(trace, "1") = 1

(***************************************************************************)
(* C3: sa and so reject every argument below 0 or above 30000 with err: 1, *)
(* leaving amplitude and offset unchanged, so the staged amplitude and the *)
(* staged offset always lie in 0..CODE_MAX.                                *)
(***************************************************************************)
C3_AmpOffsetFieldBounds ==
  /\ [][(ProcessStep /\ command' \in {Verb("s", "a"), Verb("s", "o")}
           /\ ToInt(value') \notin 0..30000)
          => (ErrCount(trace', "1") = 1 /\ AMP' = AMP /\ OFFSET' = OFFSET)]_vars
  /\ [](AMP \in 0..CODE_MAX /\ OFFSET \in 0..CODE_MAX)

(***************************************************************************)
(* C4: once an accepted sv v has been applied by a PSU update, gv reports  *)
(* a value within 8 mV of v (one code is 30000/4095 mV); once an accepted  *)
(* sc c has been applied, gc reports a value within 2 mA of c (one code is *)
(* 5000/4095 mA).                                                          *)
(***************************************************************************)
\* the number a getter has just printed, read back from its text
Reported == ToInt(trace[1].s)

C4_RoundTrip ==
  JustProcessed =>
    /\ (command = Verb("g", "v") /\ LAST_VOLTAGE = VOLTAGE)
         => Abs(reqV - Reported) <= 8
    /\ (command = Verb("g", "c") /\ LAST_CURRENT = CURRENT)
         => Abs(reqC - Reported) <= 2

\* a voltage for which the round trip loses the full 8 mV
C4_Witness ==
  /\ JustProcessed
  /\ command = Verb("g", "v")
  /\ LAST_VOLTAGE = VOLTAGE
  /\ reqV = 29978
  /\ reqV - Reported = 8

(***************************************************************************)
(* C5: the mode is PSU (0) at the start, changes only by an accepted sm and *)
(* then equals its argument, gm reports the mode, and each staged value    *)
(* (voltage, current, frequency, amplitude, offset, waveform) changes only *)
(* by its own accepted setter: never by sm, never by a mode update.        *)
(***************************************************************************)
ChangedOnlyBy(changed, verb) ==
  changed => (ProcessStep /\ command' = verb /\ ErrCount(trace', "1") = 0)

C5_ModeSwitchLossless ==
  MODE = 0 /\
  [][/\ ChangedOnlyBy(MODE' # MODE, Verb("s", "m"))
     /\ (ProcessStep /\ command' = Verb("s", "m") /\ ToInt(value') \in {0, 1})
          => MODE' = ToInt(value')
     /\ (ProcessStep /\ command' = Verb("g", "m"))
          => (trace'[1] = Println(Dec(MODE)) /\ MODE' = MODE)
     /\ ChangedOnlyBy(VOLTAGE' # VOLTAGE, Verb("s", "v"))
     /\ ChangedOnlyBy(CURRENT' # CURRENT, Verb("s", "c"))
     /\ ChangedOnlyBy(FREQ' # FREQ, Verb("s", "f"))
     /\ ChangedOnlyBy(AMP' # AMP, Verb("s", "a"))
     /\ ChangedOnlyBy(OFFSET' # OFFSET, Verb("s", "o"))
     /\ ChangedOnlyBy(WAVEFORM' # WAVEFORM, Verb("s", "w"))]_vars

\* gm answers 1 after sm 1
C5_Witness ==
  /\ JustProcessed
  /\ command = Verb("g", "m")
  /\ MODE = 1
  /\ trace[1] = Println(<<"1">>)

(***************************************************************************)
(* C6: a line whose verb is none of the 16 known verbs prints exactly one  *)
(* error line, "err: 0 Unknown command <verb>", then exactly one           *)
(* confirmation line with that verb, and changes no setting, mode or       *)
(* hardware output.                                                        *)
(***************************************************************************)
IsAckLine(e) == IsLine(e) /\ e.s # <<>> /\ e.s[Len(e.s)] = "OK"

AckCarriesVerb(e, verb) ==
  IsAckLine(e) /\ Len(e.s) > Len(verb) /\ SubSeq(e.s, 1, Len(verb)) = verb

C6_UnknownVerb ==
  [][(ProcessStep /\ command' \notin KnownVerbs)
       => /\ Len(trace') = 2
          /\ trace'[1] =
               Println(<<"err:", " ", "0", " ", "Unknown command", " ">> \o command')
          /\ AckCarriesVerb(trace'[2], command')
          /\ UNCHANGED <<settings, hardware>>]_vars

(***************************************************************************)
(* C7: every processed line prints exactly one acknowledgement             *)
(* "<verb> <arg> OK" with the line's own verb and its own argument (empty  *)
(* when the line has none), after any result or error line of the command  *)
(* and before the mode update of the iteration.                            *)
(***************************************************************************)
StripCr(line) ==
  IF line # <<>> /\ line[Len(line)] = "\r"
  THEN SubSeq(line, 1, Len(line) - 1) ELSE line

OwnVerb(line) ==
  LET l == StripCr(line)
      i == IndexOf(l, " ")
  IN  IF i = -1 THEN l ELSE SubSeq(l, 1, i)

OwnArg(line) ==
  LET l == StripCr(line)
      i == IndexOf(l, " ")
  IN  IF i = -1 THEN <<>> ELSE SubSeq(l, i + 2, Len(l))

C7_Acknowledgement ==
  [][/\ (pc = "read" /\ rx # <<>> /\ pc' = "mode")
          => /\ Len(SelectSeq(trace', IsAckLine)) = 1
             /\ trace'[Len(trace')] =
                  Println(OwnVerb(Head(rx)) \o <<" ">> \o OwnArg(Head(rx))
                            \o <<" ", "OK">>)
     /\ (pc = "mode" /\ pc' = "read")
          => (Len(trace') >= Len(trace) /\ SubSeq(trace', 1, Len(trace)) = trace)]_vars

(***************************************************************************)
(* C8: each getter gv, gc, gf, ga, go, gw reports the last-applied value   *)
(* of its field, never the staged one.                                     *)
(***************************************************************************)
C8_GettersReportLastApplied ==
  JustProcessed =>
    /\ command = Verb("g", "v")
         => trace[1] = Println(PrintFloat(map_output_voltage(LAST_VOLTAGE)))
    /\ command = Verb("g", "c")
         => trace[1] = Println(PrintFloat(map_output_current(LAST_CURRENT)))
    /\ command = Verb("g", "f") => trace[1] = Println(Dec(LAST_FREQ))
    /\ command = Verb("g", "a")
         => trace[1] = Println(PrintFloat(map_output_voltage(LAST_AMP)))
    /\ command = Verb("g", "o")
         => trace[1] = Println(PrintFloat(map_output_voltage(LAST_OFFSET)))
    /\ command = Verb("g", "w") => trace[1] = Println(Dec(LAST_WAVEFORM))

(***************************************************************************)
(* C9: every sample the function-generator update pushes to the voltage    *)
(* channel lies in 0..CODE_MAX.                                            *)
(***************************************************************************)
C9_SamplesInRange ==
  \A i \in 1..Len(trace) :
    (IsDac(trace[i]) /\ trace[i].ch = "voltage") => trace[i].code \in 0..CODE_MAX

(***************************************************************************)
(* C10: a function-generator iteration pushes exactly one sample, then     *)
(* reads the current-limit flag, and prints exactly one                    *)
(* "err: 2 Current limit reached" if the flag is set and none if it is     *)
(* clear; the flag changes no staged value and not the mode.               *)
(***************************************************************************)
IsPinRead(e) == e.t = "cc"

CurrentLimitLine == ErrLine("2", "Current limit reached")

C10_CurrentLimitReporting ==
  /\ [](\A i \in 1..Len(trace) :
          IsPinRead(trace[i]) =>
            /\ i > 1
            /\ IsDac(trace[i - 1]) /\ trace[i - 1].ch = "voltage"
            /\ IF trace[i].level = 1
               THEN i + 1 = Len(trace) /\ trace[i + 1] = CurrentLimitLine
               ELSE i = Len(trace))
  /\ [](ErrCount(trace, "2")
          = Len(SelectSeq(trace, LAMBDA e : IsPinRead(e) /\ e.level = 1)))
  /\ []((pc = "read" /\ MODE = 1) =>
          /\ Len(SelectSeq(trace, IsPinRead)) = 1
          /\ Len(SelectSeq(trace, IsDac)) = 1)
  /\ [][(pc = "mode" /\ MODE = 1 /\ pc' = "read")
          => (staged' = staged /\ MODE' = MODE)]_vars

\* an iteration of the function generator with the flag set
C10_Witness ==
  /\ pc = "read"
  /\ MODE = 1
  /\ Len(trace) >= 3
  /\ IsDac(trace[Len(trace) - 2])
  /\ trace[Len(trace) - 1] = PinRead(1)
  /\ trace[Len(trace)] = CurrentLimitLine

FgGetterReports(freq, amp, offset) ==
  /\ command = Verb("g", "f") => trace[1] = Println(Dec(freq))
  /\ command = Verb("g", "a")
       => trace[1] = Println(PrintFloat(map_output_voltage(amp)))
  /\ command = Verb("g", "o")
       => trace[1] = Println(PrintFloat(map_output_voltage(offset)))

IsTimeRead(e) == e.t = "millis"

\* round((u - 0) / (hi - 0) * CODE_MAX), halves rounded up, for u >= 0
ToNativeRounded(u, hi) == (2 * u * CODE_MAX + hi) \div (2 * hi)

lastApplied ==
  <<LAST_VOLTAGE, LAST_CURRENT, LAST_WAVEFORM, LAST_FREQ, LAST_AMP, LAST_OFFSET>>

DacWrites(tr, channel) == SelectSeq(tr, LAMBDA e : IsDac(e) /\ e.ch = channel)

\* what the mode update of this step appended to the iteration's events
Appended == SubSeq(trace', Len(trace) + 1, Len(trace'))

PsuStep == pc = "mode" /\ MODE = 0 /\ pc' = "read"

C14_StagedAppliedSplit ==
  [][/\ ProcessStep
          => /\ SelectSeq(trace', IsDac) = <<>>
             /\ vdac' = vdac /\ cdac' = cdac
             /\ lastApplied' = lastApplied
     /\ PsuStep
          => /\ DacWrites(Appended, "voltage")
                  = (IF VOLTAGE # LAST_VOLTAGE
                     THEN <<DacWrite("voltage", VOLTAGE)>> ELSE <<>>)
             /\ DacWrites(Appended, "current")
                  = (IF CURRENT # LAST_CURRENT
                     THEN <<DacWrite("current", CURRENT)>> ELSE <<>>)
             /\ vdac' = (IF VOLTAGE # LAST_VOLTAGE THEN VOLTAGE ELSE vdac)
             /\ cdac' = (IF CURRENT # LAST_CURRENT THEN CURRENT ELSE cdac)
             /\ LAST_VOLTAGE' = VOLTAGE /\ LAST_CURRENT' = CURRENT
     /\ (PsuStep /\ ~lineRead)
          => (SelectSeq(Appended, IsDac) = <<>> /\ vdac' = vdac /\ cdac' = cdac)]_vars

\* sv 5000 was applied by one PSU update; the next iteration, without a
\* command, has written nothing
C14_Witness ==
  /\ pc = "read"
  /\ MODE = 0
  /\ ~lineRead
  /\ trace = <<>>
  /\ LAST_VOLTAGE = map_input_voltage(5000)
  /\ vdac = map_input_voltage(5000)

(***************************************************************************)
(* C15: at the end of every iteration in PSU mode the code last written to *)
(* the voltage channel is the last-applied voltage code and the code last  *)
(* written to the current channel is the last-applied current code, also   *)
(* after a switch to the function generator and back.                      *)
(***************************************************************************)
C15_DacMatchesLastApplied ==
  (pc = "read" /\ MODE = 0) => (vdac = LAST_VOLTAGE /\ cdac = LAST_CURRENT)

(***************************************************************************)
(* C16: the mode is always 0 or 1; the update of an iteration is the PSU   *)
(* update alone when the mode after the parse is 0 and the function        *)
(* generator update alone when it is 1; "err: 0 Unknown mode" is never     *)
(* printed.                                                                *)
(***************************************************************************)
UnknownModeLine == ErrLine("0", "Unknown mode")

C16_ModeDispatch ==
  /\ [](MODE \in {0, 1})
  /\ [](\A i \in 1..Len(trace) : trace[i] # UnknownModeLine)
  /\ [][(pc = "mode" /\ pc' = "read")
          => IF MODE = 0
             THEN \* the PSU update ran, the function generator's did not
                  /\ LAST_VOLTAGE' = VOLTAGE /\ LAST_CURRENT' = CURRENT
                  /\ SelectSeq(Appended, IsPinRead) = <<>>
                  /\ UNCHANGED <<LAST_FREQ, LAST_AMP, LAST_OFFSET, LAST_WAVEFORM>>
             ELSE \* the function generator's update ran, the PSU's did not
                  /\ LAST_FREQ' = FREQ /\ LAST_AMP' = AMP
                  /\ LAST_OFFSET' = OFFSET /\ LAST_WAVEFORM' = WAVEFORM
                  /\ Len(SelectSeq(Appended, IsPinRead)) = 1
                  /\ Len(DacWrites(Appended, "voltage")) = 1
                  /\ UNCHANGED <<LAST_VOLTAGE, LAST_CURRENT, cdac>>]_vars

\* sm 2 was rejected while the function generator is active, and the
\* iteration ran the function generator's update
C16_Witness ==
  /\ pc = "read"
  /\ MODE = 1
  /\ command = Verb("s", "m")
  /\ ToInt(value) = 2
  /\ ErrCount(trace, "1") = 1
  /\ Len(SelectSeq(trace, IsPinRead)) = 1

(***************************************************************************)
(* C17: an iteration consumes at most one received line: when lines are    *)
(* buffered the parser processes the oldest and leaves the others buffered *)
(* unchanged and in order; when none is buffered it prints nothing and     *)
(* changes no setting, mode or output; the mode update consumes nothing.   *)
(***************************************************************************)
ParseStep == pc = "read" /\ pc' = "mode"

C17_OneLinePerIteration ==
  [][/\ (ParseStep /\ rx # <<>>)
          => /\ rx' = Tail(rx)
             /\ lineRead'
             /\ command' = Substring(Head(rx), 0, IndexOf(Head(rx), " "))
             /\ AckCarriesVerb(trace'[Len(trace')], command')
     /\ (ParseStep /\ rx = <<>>)
          => /\ rx' = <<>>
             /\ ~lineRead'
             /\ trace' = <<>>
             /\ UNCHANGED <<settings, hardware>>
     /\ (pc = "mode" /\ pc' = "read") => rx' = rx]_vars

\* two lines were buffered, gv has been processed, sm 1 is still buffered
C17_Witness ==
  /\ JustProcessed
  /\ command = Verb("g", "v")
  /\ rx = <<WithArg(Verb("s", "m"), 1)>>
  /\ MODE = 0

(***************************************************************************)
(* C18: an accepted sv v stages round(v * 4095 / 30000) and an accepted    *)
(* sc c stages round(c * 4095 / 5000), halves rounded up.                  *)
(***************************************************************************)
Accepted(verb) == JustProcessed /\ command = verb /\ ErrCount(trace, "1") = 0

C18_InputRoundsHalfUp ==
  /\ Accepted(Verb("s", "v")) => VOLTAGE = ToNativeRounded(ToInt(value), VOLTAGE_MAX)
  /\ Accepted(Verb("s", "c")) => CURRENT = ToNativeRounded(ToInt(value), CURRENT_MAX)

(***************************************************************************)
(* C18, amended: the input conversion truncates: an accepted sv v stages   *)
(* floor(v * 4095 / 30000) and an accepted sc c stages                     *)
(* floor(c * 4095 / 5000), which is the rounded code or one below it;      *)
(* sv 5000 stages 682.                                                     *)
(***************************************************************************)
C18_InputTruncates ==
  /\ Accepted(Verb("s", "v"))
       => /\ VOLTAGE = (ToInt(value) * CODE_MAX) \div VOLTAGE_MAX
          /\ ToNativeRounded(ToInt(value), VOLTAGE_MAX) - VOLTAGE \in {0, 1}
  /\ Accepted(Verb("s", "c"))
       => /\ CURRENT = (ToInt(value) * CODE_MAX) \div CURRENT_MAX
          /\ ToNativeRounded(ToInt(value), CURRENT_MAX) - CURRENT \in {0, 1}

\* sv 5000, whose exact image is 682.5
C18_Witness ==
  /\ Accepted(Verb("s", "v"))
  /\ ToInt(value) = 5000
  /\ VOLTAGE = 682

(***************************************************************************)
(* C19: the verb of a line is its text before the first space, the whole   *)
(* line if it has no space, without the carriage return that ends the      *)
(* line; the argument is the text after the first space and is empty when  *)
(* the line has no space; a line whose verb is known is never answered     *)
(* with the unknown-command error (gv followed by a carriage return runs   *)
(* gv).                                                                    *)
(***************************************************************************)
C19_Tokenization ==
  [][(ParseStep /\ rx # <<>>)
       => LET line == Head(rx)
          IN  /\ command' = OwnVerb(line)
              /\ IF IndexOf(line, " ") = -1
                 THEN value' = <<>>
                 ELSE StripCr(value') = OwnArg(line)
              /\ OwnVerb(line) \in KnownVerbs
                   => \A i \in 1..Len(trace') :
                        trace'[i] # UnknownCommandLine(command')]_vars

(***************************************************************************)
(* C20: the staged and the last-applied voltage and current codes lie in   *)
(* 0..CODE_MAX, the staged frequency in 0..50 and the staged waveform in   *)
(* 0..3; every code the PSU update writes to a channel lies in 0..CODE_MAX.*)
(***************************************************************************)
C20_SettingsInRange ==
  /\ VOLTAGE \in 0..CODE_MAX /\ LAST_VOLTAGE \in 0..CODE_MAX
  /\ CURRENT \in 0..CODE_MAX /\ LAST_CURRENT \in 0..CODE_MAX
  /\ FREQ \in FREQ_MIN..FREQ_MAX
  /\ WAVEFORM \in WAVEFORM_MIN..WAVEFORM_MAX
  /\ \A i \in 1..Len(trace) :
       (IsDac(trace[i]) /\ (trace[i].ch = "current" \/ (pc = "read" /\ MODE = 0)))
         => trace[i].code \in 0..CODE_MAX

\* sv 30000 was accepted and the PSU update wrote full scale
C20_Witness ==
  /\ pc = "read"
  /\ MODE = 0
  /\ LAST_VOLTAGE = CODE_MAX
  /\ command = Verb("s", "v")
  /\ ToInt(value) = VOLTAGE_MAX
  /\ \E i \in 1..Len(trace) : trace[i] = DacWrite("voltage", CODE_MAX)

====
